---- MODULE Spec2Model ----
(***************************************************************************)
(* State-machine model of main_rm2.py: the payout filter (get_payout),     *)
(* the signal detector (prepare_data, detect_signal), the trade executor   *)
(* (perform_trade), the martingale ladder (martingale_strategy) and the    *)
(* cycle loop (main_trading_loop).                                         *)
(***************************************************************************)
EXTENDS Integers, Sequences, FiniteSets, TLC

VARIABLES
    MARTINGALE_LEVEL,  \* level cap of a ladder (module constant, line 27)
    INITIAL_AMOUNT,    \* base stake (module constant, line 26)
    pc,                \* position of the running code
    PayoutData,        \* global_value.PayoutData, the raw payout feed
    pairs,             \* global_value.pairs, a dict kept in insertion order
    payout_ret,        \* value returned by the last get_payout call
    raw,               \* frame returned by the candle fetch, with indicators
    df,                \* frame returned by prepare_data
    decision,          \* first component of detect_signal's result
    scan_keys,         \* list(global_value.pairs.keys()) of the running scan
    scan_i,            \* index in scan_keys of the next instrument
    fetched,           \* get_oanda_candles calls of this cycle, in order
    selected_pair,     \* main_trading_loop local
    selected_action,   \* main_trading_loop local
    ladders,           \* martingale_strategy calls of this cycle
    amount,            \* martingale_strategy local
    level,             \* martingale_strategy local
    result,            \* martingale_strategy local: result[1], or None
    calls,             \* perform_trade calls of the running ladder, in order
    ladder,            \* Idle, Active, Won, Lost or Aborted
    api_log,           \* broker calls made by the last perform_trade
    connected,         \* broker session state
    steps,             \* calls made by the running cycle so far, in order
    last_amount,       \* stake of the last attempt of the previous ladder
    last_ladder,       \* how the previous ladder ended
    now,               \* wall clock, whole seconds since the epoch
    period,            \* candle period in seconds (module constant, line 24)
    seconds_before,    \* lead of the pre-close wait (argument, line 176)
    next_candle,       \* wait_until_next_candle local when it returned
    opened_at          \* instant at which wait_for_candle_start returned

vars == <<MARTINGALE_LEVEL, INITIAL_AMOUNT, pc, PayoutData, pairs, payout_ret,
          raw, df, decision, scan_keys, scan_i, fetched, selected_pair,
          selected_action, ladders, amount, level, result, calls, ladder,
          api_log, connected, steps, last_amount, last_ladder, now, period,
          seconds_before, next_candle, opened_at>>

payoutVars == <<PayoutData, pairs, payout_ret>>
signalVars == <<raw, df, decision>>
scanVars   == <<scan_keys, scan_i, fetched, selected_pair, selected_action, ladders>>
ladderVars == <<amount, level, result, calls, ladder, api_log, connected>>
configVars == <<MARTINGALE_LEVEL, INITIAL_AMOUNT>>
pastVars   == <<last_amount, last_ladder>>
clockVars  == <<now, period, seconds_before, next_candle, opened_at>>

(***************************************************************************)
(* Bounds of the model.                                                    *)
(***************************************************************************)
MaxFeedLen     == 2   \* entries of a payout feed, payout driver
MaxLoopFeedLen == 1   \* entries of a payout feed, cycle loop
MaxRows        == 4   \* rows of a fetched candle frame
MaxWarmup      == 2   \* leading rows whose indicator values are NaN
MaxLevelCap    == 3   \* values of MARTINGALE_LEVEL, ladder driver
MaxBaseStake   == 2   \* values of INITIAL_AMOUNT, ladder driver

(***************************************************************************)
(* Program constants.                                                      *)
(***************************************************************************)
min_payout == 60
expiration == 60

None == <<>>          \* Python None where a string (a sequence) is expected

(***************************************************************************)
(* Strings are sequences of characters, so that endswith and slicing are   *)
(* computed.                                                               *)
(***************************************************************************)
EURUSD     == <<"E", "U", "R", "U", "S", "D">>
GBPUSD     == <<"G", "B", "P", "U", "S", "D">>
EURUSD_otc == <<"E", "U", "R", "U", "S", "D", "_", "o", "t", "c">>
OtcSuffix  == <<"_", "o", "t", "c">>

\* str.endswith
endswith(s, suffix) ==
    /\ Len(s) >= Len(suffix)
    /\ SubSeq(s, Len(s) - Len(suffix) + 1, Len(s)) = suffix

(***************************************************************************)
(* The payout feed.  An entry is a fixed-position record; get_payout reads *)
(* positions 1, 5, 3 and 14.  kind tells how an entry is malformed:        *)
(*   "ok"        all four positions exist and have the expected types;     *)
(*   "short"     a position is missing (IndexError when it is indexed);    *)
(*   "badpayout" the payout is not a number (TypeError when it is compared *)
(*               with min_payout, which happens only if the comparison is  *)
(*               reached).                                                 *)
(***************************************************************************)
Entry(k, n, t, p, a) ==
    [kind |-> k, name |-> n, asset_type |-> t, payout |-> p, is_active |-> a]

FeedEntries ==
    {Entry("ok", EURUSD, t, p, a) :
        t \in {"currency", "stock"}, p \in {59, 60}, a \in BOOLEAN}
    \cup {Entry("ok", GBPUSD, "currency", p, a) : p \in {59, 60}, a \in BOOLEAN}
    \cup {Entry("ok", EURUSD_otc, "currency", 60, TRUE)}
    \cup {Entry("badpayout", EURUSD, "currency", 0, a) : a \in BOOLEAN}
    \cup {Entry("short", None, "", 0, FALSE)}

Unparseable == [parseable |-> FALSE, entries |-> <<>>]
EmptyFeed   == [parseable |-> TRUE, entries |-> <<>>]

(***************************************************************************)
(* dict operations on global_value.pairs (insertion-ordered).              *)
(***************************************************************************)
Keys(d) == [i \in 1..Len(d) |-> d[i].name]

KeySet(d) == {d[i].name : i \in 1..Len(d)}

\* d[name] = value: an existing key keeps its position, a new key goes last
DictSet(d, name, value) ==
    IF name \in KeySet(d)
    THEN [i \in 1..Len(d) |->
             IF d[i].name = name THEN [name |-> name, value |-> value] ELSE d[i]]
    ELSE Append(d, [name |-> name, value |-> value])

\* del d[name]
DictDel(d, name) == SelectSeq(d, LAMBDA kv : kv.name # name)

(***************************************************************************)
(* get_payout, lines 53-70.                                                *)
(***************************************************************************)
\* line 62, the outer condition
OuterConditionNoOtc(e) ==
    /\ e.asset_type = "currency"
    /\ e.is_active

OuterCondition(e) ==
    /\ ~endswith(e.name, OtcSuffix)
    /\ e.asset_type = "currency"
    /\ e.is_active

\* lines 57-66 raise on this entry
EntryRaises(e) ==
    \/ e.kind = "short"
    \/ e.kind = "badpayout" /\ OuterCondition(e)

\* lines 62-66 on an entry that does not raise
ProcessEntry(prs, e) ==
    IF OuterCondition(e)
    THEN IF e.payout >= min_payout
         THEN DictSet(prs, e.name, [payout |-> e.payout, type |-> e.asset_type])
         ELSE IF e.name \in KeySet(prs) THEN DictDel(prs, e.name) ELSE prs
    ELSE prs

\* the for loop of lines 56-66 from entry i on, inside the try
RECURSIVE payout_loop(_, _, _)
payout_loop(d, i, prs) ==
    IF i > Len(d)
    THEN [ret |-> TRUE, pairs |-> prs]
    ELSE IF EntryRaises(d[i])
         THEN [ret |-> FALSE, pairs |-> prs]
         ELSE payout_loop(d, i + 1, ProcessEntry(prs, d[i]))

get_payout(data, prs) ==
    IF ~data.parseable
    THEN [ret |-> FALSE, pairs |-> prs]
    ELSE payout_loop(data.entries, 1, prs)

(***************************************************************************)
(* The candle frame.  The indicator primitives (ta.rsi, ta.supertrend) are *)
(* external: a fetched frame is modelled by what they yield for it, the    *)
(* trend direction SUPERTd of every row (+1 or -1) and the number of       *)
(* leading rows whose indicator values are NaN (the warm-up).  Rows are in *)
(* ascending timestamp order, as the provider returns them.                *)
(***************************************************************************)
Directions == {-1, 1}

SeqsUpTo(S, n) == UNION {[1..k -> S] : k \in 0..n}

RawFrames ==
    {[SUPERTd |-> d, warmup |-> w] :
        d \in SeqsUpTo(Directions, MaxRows), w \in 0..MaxWarmup}

\* Series.diff(), line 84: the first row has no predecessor and gets NaN
diff(s) ==
    [i \in 1..Len(s) |->
        IF i = 1 THEN [nan |-> TRUE, v |-> 0]
        ELSE [nan |-> FALSE, v |-> s[i] - s[i - 1]]]

\* prepare_data, lines 72-88: the signal column, then dropna and reset_index
prepare_data(frame) ==
    LET n      == Len(frame.SUPERTd)
        signal == diff(frame.SUPERTd)
        rows   == [i \in 1..n |->
                     [SUPERTd |-> frame.SUPERTd[i],
                      signal  |-> signal[i].v,
                      nan     |-> signal[i].nan \/ i <= frame.warmup]]
        kept   == SelectSeq(rows, LAMBDA r : ~r.nan)
    IN  [i \in 1..Len(kept) |->
            [SUPERTd |-> kept[i].SUPERTd, signal |-> kept[i].signal]]

\* lines 92-96: latest_index < 2 returns None, None
EnoughRowsOffByOne(frame) == ~(Len(frame) - 1 < 1)

EnoughRows(frame) == ~(Len(frame) - 1 < 2)

\* detect_signal, lines 90-110: the decision it returns ("None" for None)
detect_signal(frame) ==
    IF ~EnoughRows(frame) THEN "None"
    ELSE IF frame[Len(frame)].signal = 2 THEN "call"
    ELSE IF frame[Len(frame)].signal = -2 THEN "put"
    ELSE "None"

\* line 187: pair[:3] + "_" + pair[3:]
oanda_name(pair) ==
    SubSeq(pair, 1, IF Len(pair) < 3 THEN Len(pair) ELSE 3)
    \o <<"_">> \o SubSeq(pair, 4, Len(pair))

(***************************************************************************)
(* perform_trade, lines 112-124.  The broker is external: api.buy returns  *)
(* (accepted, trade_id) and api.check_win returns a tuple whose second     *)
(* component is the result string.                                         *)
(***************************************************************************)
BuyResults ==
    {[accepted |-> a, trade_id |-> t] : a \in BOOLEAN, t \in {"None", "id"}}

WinResults == {"win", "loose", "draw"}

\* line 116
PlacementFailedIgnoresId(buy) == buy.accepted = FALSE

PlacementFailed(buy) == buy.accepted = FALSE \/ buy.trade_id = "None"

\* what perform_trade returns (result[1] of the outcome, or "None") and the
\* broker calls and sleeps it makes, in order
perform_trade_PollsEarly(buy, win) ==
    IF PlacementFailed(buy)
    THEN [ret |-> "None",
          log |-> <<"buy", "disconnect", "sleep(2)", "connect">>]
    ELSE [ret |-> win,
          log |-> <<"buy", "check_win", "sleep(expiration)">>]

perform_trade(buy, win) ==
    IF PlacementFailed(buy)
    THEN [ret |-> "None",
          log |-> <<"buy", "disconnect", "sleep(2)", "connect">>]
    ELSE [ret |-> win,
          log |-> <<"buy", "sleep(expiration)", "check_win">>]

\* the broker session after the calls of log
RECURSIVE session_after(_, _)
session_after(c, log) ==
    IF log = <<>> THEN c
    ELSE session_after(
             IF Head(log) = "disconnect" THEN FALSE
             ELSE IF Head(log) = "connect" THEN TRUE
             ELSE c,
             Tail(log))

(***************************************************************************)
(* martingale_strategy, lines 126-150.                                     *)
(***************************************************************************)
\* line 139, the loop condition
LadderContinuesAtCap(res, lvl, cap) == res = "loose" /\ lvl <= cap

LadderStopsOneEarly(res, lvl, cap) == res = "loose" /\ lvl + 1 < cap

LadderContinues(res, lvl, cap) == res = "loose" /\ lvl < cap

\* line 141
NextAmountAdds(a) == a + 2

NextAmount(a) == a * 2

\* lines 136 and 144
IsAbortNever(res) == FALSE

IsAbort(res) == res = "None"

\* lines 147-150, the branch that is logged
FinalStateOnLoss(res) == IF res = "win" THEN "Won" ELSE "Lost"

FinalState(res) == IF res # "loose" THEN "Won" ELSE "Lost"

\* line 132: the stake of the first attempt; carried is the stake the
\* previous ladder ended with (0 when there was none), which the code does
\* not read
StartAmountCarried(base, carried) == IF carried = 0 THEN base ELSE carried

StartAmount(base, carried) == base

\* one perform_trade call of the ladder with stake a at level l, and the
\* check of its result that follows it (lines 134-137, 142-145)
Attempt(a, l, before) ==
    \E buy \in BuyResults, win \in WinResults :
        LET t == perform_trade(buy, win) IN
        /\ amount' = a
        /\ level' = l
        /\ result' = t.ret
        /\ calls' = Append(before,
                        [amount |-> a, pair |-> selected_pair,
                         action |-> selected_action, expirations |-> expiration,
                         level |-> l, outcome |-> t.ret, buy |-> buy,
                         log |-> t.log,
                         polled |-> IF \E k \in 1..Len(t.log) :
                                          t.log[k] = "check_win"
                                    THEN win ELSE "None"])
        /\ steps' = Append(steps, "perform_trade")
        /\ api_log' = t.log
        /\ connected' = session_after(connected, t.log)
        /\ IF IsAbort(t.ret)
           THEN ladder' = "Aborted" /\ pc' = "pause1"
           ELSE ladder' = "Active" /\ pc' = "ladder"

\* lines 209-211 and 132-137: the ladder starts with its first attempt
MartingaleStart ==
    /\ pc = "execute"
    /\ selected_pair # None /\ selected_action # "None"
    /\ Attempt(StartAmount(INITIAL_AMOUNT, last_amount), 1, <<>>)
    /\ ladders' = ladders + 1
    /\ UNCHANGED <<configVars, clockVars, pastVars, payoutVars, signalVars,
                   scan_keys, scan_i, fetched, selected_pair, selected_action>>

\* lines 139-145: one turn of the while loop
MartingaleEscalate ==
    /\ pc = "ladder"
    /\ LadderContinues(result, level, MARTINGALE_LEVEL)
    /\ Attempt(NextAmount(amount), level + 1, calls)
    /\ UNCHANGED <<configVars, clockVars, pastVars, payoutVars, signalVars,
                   scanVars>>

\* lines 139 and 147-150: the loop ends and the outcome is logged
MartingaleReport ==
    /\ pc = "ladder"
    /\ ~LadderContinues(result, level, MARTINGALE_LEVEL)
    /\ ladder' = FinalState(result)
    /\ pc' = "pause1"
    /\ UNCHANGED <<configVars, clockVars, pastVars, steps, payoutVars,
                   signalVars, scanVars, amount, level, result, calls, api_log,
                   connected>>

(***************************************************************************)
(* Ladder driver: one ladder for every level cap, base stake, instrument   *)
(* and action.                                                             *)
(***************************************************************************)
ConfiguredLevel  == 3
ConfiguredAmount == 1
ConfiguredPeriod == 60
ConfiguredLead   == 15

InitLadder ==
    /\ MARTINGALE_LEVEL \in 1..MaxLevelCap
    /\ INITIAL_AMOUNT \in 1..MaxBaseStake
    /\ pc = "execute"
    /\ PayoutData = Unparseable
    /\ pairs = <<>>
    /\ payout_ret = "none"
    /\ raw = [SUPERTd |-> <<>>, warmup |-> 0]
    /\ df = <<>>
    /\ decision = "None"
    /\ scan_keys = <<>>
    /\ scan_i = 1
    /\ fetched = <<>>
    /\ selected_pair \in {EURUSD, GBPUSD}
    /\ selected_action \in {"call", "put"}
    /\ ladders = 0
    /\ amount = 0
    /\ level = 0
    /\ result = "None"
    /\ calls = <<>>
    /\ ladder = "Idle"
    /\ api_log = <<>>
    /\ connected = TRUE
    /\ steps = <<>>
    /\ last_amount = 0
    /\ last_ladder = "Idle"
    /\ now = 0
    /\ period = ConfiguredPeriod
    /\ seconds_before = ConfiguredLead
    /\ next_candle = 0
    /\ opened_at = 0

\* lines 216 and 168-209 after a ladder: the cycle ends, and a later cycle
\* selects a signal again.  How the ended ladder went is kept for comparison.
LadderAgain ==
    /\ pc = "pause1"
    /\ pc' = "execute"
    /\ last_amount' = amount
    /\ last_ladder' = ladder
    /\ amount' = 0
    /\ level' = 0
    /\ result' = "None"
    /\ calls' = <<>>
    /\ ladder' = "Idle"
    /\ api_log' = <<>>
    /\ selected_pair' \in {EURUSD, GBPUSD}
    /\ selected_action' \in {"call", "put"}
    /\ ladders' = 0
    /\ steps' = <<>>
    /\ UNCHANGED <<configVars, clockVars, payoutVars, signalVars, scan_keys,
                   scan_i, fetched, connected>>

NextLadder ==
    \/ MartingaleStart
    \/ MartingaleEscalate
    \/ MartingaleReport
    \/ LadderAgain

SpecLadder == InitLadder /\ [][NextLadder]_vars

(***************************************************************************)
(* Properties of the ladder.                                               *)
(***************************************************************************)
RECURSIVE Pow2(_)
Pow2(n) == IF n = 0 THEN 1 ELSE 2 * Pow2(n - 1)

Terminal == ladder \in {"Won", "Lost", "Aborted"}

LastCall == calls[Len(calls)]

\* C1: a ladder never makes more perform_trade calls than the level cap,
\* for every positive cap and every sequence of outcomes.
C1_AttemptsWithinCap == Len(calls) <= MARTINGALE_LEVEL

C1_Witness ==
    /\ MARTINGALE_LEVEL = 3
    /\ Len(calls) = 3
    /\ ladder = "Lost"

\* C2: the attempt made at level L is the L-th attempt and its stake is
\* baseStake * 2^(L-1); instrument, action and expiry are those of the
\* selected signal on every attempt.
C2_StakeDoublesPerLevel ==
    \A i \in 1..Len(calls) :
        /\ calls[i].level = i
        /\ calls[i].amount = INITIAL_AMOUNT * Pow2(i - 1)
        /\ calls[i].pair = selected_pair
        /\ calls[i].action = selected_action
        /\ calls[i].expirations = expiration

C2_Witness ==
    /\ INITIAL_AMOUNT = 2
    /\ Len(calls) = 3
    /\ calls[3].amount = 8
    /\ calls[2].outcome = "loose"

\* C3: an attempt is followed by another one exactly when it returned loss
\* below the level cap; a ladder whose last attempt returned anything else
\* than loss (and was placed) ends Won.
C3_ContinueIffLossBelowCap ==
    /\ \A i \in 1..(Len(calls) - 1) :
           calls[i].outcome = "loose" /\ calls[i].level < MARTINGALE_LEVEL
    /\ Terminal =>
           ~(LastCall.outcome = "loose" /\ LastCall.level < MARTINGALE_LEVEL)
    /\ Terminal =>
           (ladder = "Won" <=> LastCall.outcome \notin {"loose", "None"})

C3_Witness ==
    /\ INITIAL_AMOUNT = 1
    /\ MARTINGALE_LEVEL = 3
    /\ ladder = "Won"
    /\ [i \in 1..Len(calls) |-> calls[i].amount] = <<1, 2, 4>>
    /\ [i \in 1..Len(calls) |-> calls[i].outcome] = <<"loose", "loose", "win">>

\* C4: a ladder whose attempts were all placed and all lost makes exactly
\* levelCap attempts and ends Lost.
C4_AllLossesEndLost ==
    (Terminal /\ \A i \in 1..Len(calls) : calls[i].outcome = "loose")
        => (Len(calls) = MARTINGALE_LEVEL /\ ladder = "Lost")

C4_Witness ==
    /\ MARTINGALE_LEVEL = 3
    /\ ladder = "Lost"
    /\ [i \in 1..Len(calls) |-> calls[i].outcome] = <<"loose", "loose", "loose">>
    /\ pc = "pause1"

\* C5: an attempt that returns None is the last attempt of its ladder, and
\* the ladder ends Aborted (neither Won nor Lost is logged).
C5_NullAborts ==
    /\ \A i \in 1..Len(calls) :
           calls[i].outcome = "None" => (i = Len(calls) /\ ladder = "Aborted")
    /\ ladder = "Aborted" => LastCall.outcome = "None"

C5_Witness ==
    /\ ladder = "Aborted"
    /\ Len(calls) = 2
    /\ calls[1].outcome = "loose"
    /\ calls[2].outcome = "None"
    /\ api_log = <<"buy", "disconnect", "sleep(2)", "connect">>

(***************************************************************************)
(* main_trading_loop, lines 167-216.                                       *)
(***************************************************************************)
\* global_value.PayoutData is refreshed out of band by the broker
\* connection.  get_payout is its only reader, so a refresh is taken at the
\* point of the read: the new feed is the old one with one more entry, the
\* empty list, or text that does not parse.
UpdatePayoutData(maxLen) ==
    /\ pc = "cycle"
    /\ \/ /\ PayoutData.parseable
          /\ Len(PayoutData.entries) < maxLen
          /\ \E e \in FeedEntries :
                PayoutData' = [PayoutData EXCEPT !.entries = Append(@, e)]
       \/ PayoutData' = EmptyFeed
       \/ PayoutData' = Unparseable
    /\ UNCHANGED <<configVars, clockVars, pastVars, steps, pc, pairs,
                   payout_ret, signalVars, scanVars, ladderVars>>

\* lines 171-176: where the loop goes after get_payout returned ret
AfterPayoutIgnoresFailure(ret) == "wait_pre"

AfterPayout(ret) == IF ret THEN "wait_pre" ELSE "pause5"

\* lines 169-174: the cycle starts with get_payout; the locals and logs of
\* the previous cycle are gone
CycleStart ==
    /\ pc = "cycle"
    /\ LET r == get_payout(PayoutData, pairs) IN
        /\ pairs' = r.pairs
        /\ payout_ret' = r.ret
        /\ pc' = AfterPayout(r.ret)
    /\ steps' = Append(steps, "get_payout")
    /\ UNCHANGED <<configVars, clockVars, pastVars, PayoutData, signalVars,
                   scanVars, ladderVars>>

\* lines 173-174: time.sleep(5); continue
PauseAfterFailure ==
    /\ pc = "pause5"
    /\ pc' = "cycle"
    /\ steps' = <<>>
    /\ UNCHANGED <<configVars, clockVars, pastVars, payoutVars, signalVars,
                   scanVars, ladderVars>>

\* lines 176-186: wait_until_next_candle returns, the selection is cleared
\* and the scan takes its snapshot of the keys
WaitUntilNextCandle ==
    /\ pc = "wait_pre"
    /\ pc' = "scan"
    /\ selected_pair' = None
    /\ selected_action' = "None"
    /\ scan_keys' = Keys(pairs)
    /\ scan_i' = 1
    /\ fetched' = <<>>
    /\ ladders' = 0
    /\ steps' = Append(steps, "wait_until_next_candle")
    /\ UNCHANGED <<configVars, clockVars, pastVars, payoutVars, signalVars,
                   ladderVars>>

\* line 197: if decision
Truthy(d) == d # "None"

\* line 203: the break at the end of the if branch
BreaksNever(d) == FALSE

Breaks(d) == Truthy(d)

\* line 207 follows the for loop
AfterScanSkipsWait == "execute"

AfterScan == "wait_open"

\* lines 194 and 219: an exception of prepare_data leaves main_trading_loop
\* and ends the process
OnPrepareError == "crashed"

\* lines 187-192: get_oanda_candles returns None, the instrument is skipped
ScanFetchFails ==
    /\ pc = "scan"
    /\ scan_i <= Len(scan_keys)
    /\ fetched' = Append(fetched,
                      [pair |-> oanda_name(scan_keys[scan_i]),
                       got |-> "None", decision |-> "None"])
    /\ scan_i' = scan_i + 1
    /\ steps' = Append(steps, "get_oanda_candles")
    /\ UNCHANGED <<configVars, clockVars, pastVars, pc, payoutVars, signalVars,
                   scan_keys, selected_pair, selected_action, ladders,
                   ladderVars>>

\* lines 187-205: the fetch succeeds, the frame is prepared and classified
ScanFetch ==
    /\ pc = "scan"
    /\ scan_i <= Len(scan_keys)
    /\ \E frame \in RawFrames :
        LET d == detect_signal(prepare_data(frame)) IN
        /\ fetched' = Append(fetched,
                          [pair |-> oanda_name(scan_keys[scan_i]),
                           got |-> "df", decision |-> d])
        /\ IF Truthy(d)
           THEN /\ selected_pair' = scan_keys[scan_i]
                /\ selected_action' = d
           ELSE UNCHANGED <<selected_pair, selected_action>>
        /\ IF Breaks(d)
           THEN scan_i' = scan_i /\ pc' = AfterScan
           ELSE scan_i' = scan_i + 1 /\ pc' = pc
    /\ steps' = Append(steps, "get_oanda_candles")
    /\ UNCHANGED <<configVars, clockVars, pastVars, payoutVars, signalVars,
                   scan_keys, ladders, ladderVars>>

\* lines 188 and 194, 79-81: the fetch succeeds with a frame that has fewer
\* rows than the supertrend length, ta.supertrend returns None for it and
\* the subscript of line 80 raises TypeError; nothing on the way up to
\* main_trading_loop catches it
ScanPrepareRaises ==
    /\ pc = "scan"
    /\ scan_i <= Len(scan_keys)
    /\ fetched' = Append(fetched,
                      [pair |-> oanda_name(scan_keys[scan_i]),
                       got |-> "df", decision |-> "raised"])
    /\ pc' = OnPrepareError
    /\ steps' = Append(steps, "get_oanda_candles")
    /\ UNCHANGED <<configVars, clockVars, pastVars, payoutVars, signalVars,
                   scan_keys, scan_i, selected_pair, selected_action, ladders,
                   ladderVars>>

\* line 186: the snapshot is exhausted
ScanEnd ==
    /\ pc = "scan"
    /\ scan_i > Len(scan_keys)
    /\ pc' = AfterScan
    /\ UNCHANGED <<configVars, clockVars, pastVars, steps, payoutVars,
                   signalVars, scanVars, ladderVars>>

\* line 207: wait_for_candle_start returns
WaitForCandleStart ==
    /\ pc = "wait_open"
    /\ pc' = "execute"
    /\ steps' = Append(steps, "wait_for_candle_start")
    /\ UNCHANGED <<configVars, clockVars, pastVars, payoutVars, signalVars,
                   scanVars, ladderVars>>

\* lines 209-213, the else branch: no ladder this cycle
NoSignal ==
    /\ pc = "execute"
    /\ ~(selected_pair # None /\ selected_action # "None")
    /\ pc' = "pause1"
    /\ UNCHANGED <<configVars, clockVars, pastVars, steps, payoutVars,
                   signalVars, scanVars, ladderVars>>

\* line 216 and back to line 168; martingale_strategy has returned and its
\* locals are gone; the locals of the loop body are dead until lines
\* 179-186 assign them again, and the logs of the cycle are closed
PauseEndOfCycle ==
    /\ pc = "pause1"
    /\ pc' = "cycle"
    /\ amount' = 0
    /\ level' = 0
    /\ result' = "None"
    /\ calls' = <<>>
    /\ ladder' = "Idle"
    /\ api_log' = <<>>
    /\ selected_pair' = None
    /\ selected_action' = "None"
    /\ scan_keys' = <<>>
    /\ scan_i' = 1
    /\ fetched' = <<>>
    /\ ladders' = 0
    /\ steps' = <<>>
    /\ UNCHANGED <<configVars, clockVars, pastVars, payoutVars, signalVars,
                   connected>>

Init ==
    /\ MARTINGALE_LEVEL = ConfiguredLevel
    /\ INITIAL_AMOUNT = ConfiguredAmount
    /\ pc = "cycle"
    /\ PayoutData = Unparseable
    /\ pairs = <<>>
    /\ payout_ret = "none"
    /\ raw = [SUPERTd |-> <<>>, warmup |-> 0]
    /\ df = <<>>
    /\ decision = "None"
    /\ scan_keys = <<>>
    /\ scan_i = 1
    /\ fetched = <<>>
    /\ selected_pair = None
    /\ selected_action = "None"
    /\ ladders = 0
    /\ amount = 0
    /\ level = 0
    /\ result = "None"
    /\ calls = <<>>
    /\ ladder = "Idle"
    /\ api_log = <<>>
    /\ connected = TRUE
    /\ steps = <<>>
    /\ last_amount = 0
    /\ last_ladder = "Idle"
    /\ now = 0
    /\ period = ConfiguredPeriod
    /\ seconds_before = ConfiguredLead
    /\ next_candle = 0
    /\ opened_at = 0

Next ==
    \/ UpdatePayoutData(MaxLoopFeedLen)
    \/ CycleStart
    \/ PauseAfterFailure
    \/ WaitUntilNextCandle
    \/ ScanFetchFails
    \/ ScanFetch
    \/ ScanPrepareRaises
    \/ ScanEnd
    \/ WaitForCandleStart
    \/ NoSignal
    \/ MartingaleStart
    \/ MartingaleEscalate
    \/ MartingaleReport
    \/ PauseEndOfCycle

Spec == Init /\ [][Next]_vars

(***************************************************************************)
(* Payout driver: get_payout called again and again on feeds of up to      *)
(* MaxFeedLen entries.  The rest of a cycle leaves the feed and the        *)
(* eligible set alone and is skipped.                                      *)
(***************************************************************************)
RestOfCycle ==
    /\ pc = "wait_pre"
    /\ pc' = "cycle"
    /\ steps' = <<>>
    /\ UNCHANGED <<configVars, clockVars, pastVars, payoutVars, signalVars,
                   scanVars, ladderVars>>

NextPayout ==
    \/ UpdatePayoutData(MaxFeedLen)
    \/ CycleStart
    \/ PauseAfterFailure
    \/ RestOfCycle

SpecPayout == Init /\ [][NextPayout]_vars

(***************************************************************************)
(* Signal driver: prepare_data and detect_signal on every fetched frame.   *)
(***************************************************************************)
FetchFrame ==
    /\ pc \in {"fetch", "detected"}
    /\ raw' \in RawFrames
    /\ df' = <<>>
    /\ decision' = "None"
    /\ pc' = "prepare"
    /\ UNCHANGED <<configVars, clockVars, pastVars, steps, payoutVars,
                   scanVars, ladderVars>>

PrepareFrame ==
    /\ pc = "prepare"
    /\ df' = prepare_data(raw)
    /\ pc' = "detect"
    /\ UNCHANGED <<configVars, clockVars, pastVars, steps, payoutVars, raw,
                   decision, scanVars, ladderVars>>

DetectSignal ==
    /\ pc = "detect"
    /\ decision' = detect_signal(df)
    /\ pc' = "detected"
    /\ UNCHANGED <<configVars, clockVars, pastVars, steps, payoutVars, raw,
                   df, scanVars, ladderVars>>

InitSignal ==
    /\ MARTINGALE_LEVEL = ConfiguredLevel
    /\ INITIAL_AMOUNT = ConfiguredAmount
    /\ pc = "fetch"
    /\ PayoutData = Unparseable
    /\ pairs = <<>>
    /\ payout_ret = "none"
    /\ raw = [SUPERTd |-> <<>>, warmup |-> 0]
    /\ df = <<>>
    /\ decision = "None"
    /\ scan_keys = <<>>
    /\ scan_i = 1
    /\ fetched = <<>>
    /\ selected_pair = None
    /\ selected_action = "None"
    /\ ladders = 0
    /\ amount = 0
    /\ level = 0
    /\ result = "None"
    /\ calls = <<>>
    /\ ladder = "Idle"
    /\ api_log = <<>>
    /\ connected = TRUE
    /\ steps = <<>>
    /\ last_amount = 0
    /\ last_ladder = "Idle"
    /\ now = 0
    /\ period = ConfiguredPeriod
    /\ seconds_before = ConfiguredLead
    /\ next_candle = 0
    /\ opened_at = 0

NextSignal ==
    \/ FetchFrame
    \/ PrepareFrame
    \/ DetectSignal

SpecSignal == InitSignal /\ [][NextSignal]_vars

(***************************************************************************)
(* Properties of the eligibility filter.                                   *)
(***************************************************************************)
WellFormedFeed(data) ==
    /\ data.parseable
    /\ \A i \in 1..Len(data.entries) : data.entries[i].kind = "ok"

\* a name that is some prefix followed by _otc
IsOtcName(n) == \E k \in 0..Len(n) : n = SubSeq(n, 1, k) \o OtcSuffix

FourConditions(e) ==
    /\ ~IsOtcName(e.name)
    /\ e.asset_type = "currency"
    /\ e.is_active
    /\ e.payout >= min_payout

ListedOnce(d, n) == Cardinality({i \in 1..Len(d) : d[i].name = n}) = 1

\* C6: after a successful refresh on a well-formed feed, an instrument the
\* latest feed lists (once) is in the eligible set exactly when its entry
\* satisfies all four conditions; in particular an instrument that was
\* included and is now inactive or of another asset class is not in the set.
C6_MembershipMatchesLatestFeed ==
    (pc = "wait_pre" /\ WellFormedFeed(PayoutData)) =>
        \A i \in 1..Len(PayoutData.entries) :
            LET e == PayoutData.entries[i] IN
            ListedOnce(PayoutData.entries, e.name) =>
                (e.name \in KeySet(pairs) <=> FourConditions(e))

\* C7: a get_payout call that returns False leaves the eligible set as it
\* was before the call.
C7_FailedRefreshKeepsSet ==
    [][(pc = "cycle" /\ pc' = "pause5") => pairs' = pairs]_vars

\* C8: no instrument whose name ends in _otc is ever in the eligible set.
C8_NoOtcEligible ==
    \A i \in 1..Len(pairs) : ~IsOtcName(pairs[i].name)

C8_Witness ==
    /\ pc = "wait_pre"
    /\ payout_ret = TRUE
    /\ \E i \in 1..Len(PayoutData.entries) :
           PayoutData.entries[i] = Entry("ok", EURUSD_otc, "currency", 60, TRUE)
    /\ Len(pairs) = 1

(***************************************************************************)
(* Properties of the signal detector.                                      *)
(***************************************************************************)
\* trend direction of the last row of a cleaned frame minus that of the row
\* before it (0 when there is no row before it)
LastDelta(frame) ==
    IF Len(frame) >= 2
    THEN frame[Len(frame)].SUPERTd - frame[Len(frame) - 1].SUPERTd
    ELSE 0

\* C9: detect_signal returns call exactly when the cleaned frame has at
\* least 3 rows and the trend direction rose by 2 on its last row, put
\* exactly when it has at least 3 rows and the direction fell by 2, and no
\* signal otherwise.
C9_SignalFromLastDelta ==
    pc = "detected" =>
        /\ decision = "call" <=> (Len(df) >= 3 /\ LastDelta(df) = 2)
        /\ decision = "put" <=> (Len(df) >= 3 /\ LastDelta(df) = -2)
        /\ decision \in {"call", "put", "None"}

C9_Witness ==
    /\ pc = "detected"
    /\ decision = "call"
    /\ [i \in 1..Len(df) |-> df[i].SUPERTd] = <<-1, -1, 1>>
    /\ raw.warmup = 1

(***************************************************************************)
(* Properties of the scan.                                                 *)
(***************************************************************************)
ScanPcs == {"scan", "wait_open", "execute", "ladder", "pause1"}

HasSignal(f) == f.got = "df" /\ f.decision # "None"

\* C10: the scan fetches the instruments in the insertion order of the
\* eligible set, skips one whose fetch fails, stops at the first one whose
\* frame gives a signal and selects it, and a cycle starts at most one ladder.
C10_FirstSignalInInsertionOrder ==
    pc \in ScanPcs =>
        /\ scan_keys = Keys(pairs)
        /\ Len(fetched) <= Len(pairs)
        /\ \A i \in 1..Len(fetched) :
               fetched[i].pair = oanda_name(pairs[i].name)
        /\ \A i \in 1..(Len(fetched) - 1) : ~HasSignal(fetched[i])
        /\ IF fetched # <<>> /\ HasSignal(fetched[Len(fetched)])
           THEN /\ selected_pair = pairs[Len(fetched)].name
                /\ selected_action = fetched[Len(fetched)].decision
                /\ pc # "scan"
           ELSE /\ selected_pair = None
                /\ selected_action = "None"
                /\ pc # "scan" => Len(fetched) = Len(pairs)
        /\ ladders <= 1
        /\ ladders = 1 => selected_pair # None

C10_Witness ==
    /\ pc = "ladder"
    /\ ladders = 1
    /\ Keys(pairs) = <<EURUSD, GBPUSD>>
    /\ Len(fetched) = 2
    /\ fetched[1].got = "None"
    /\ fetched[2].decision = "put"
    /\ selected_pair = GBPUSD

(***************************************************************************)
(* Properties of the cycle.                                                *)
(***************************************************************************)
\* place of a call in the order of a cycle
Rank(step) ==
    CASE step = "get_payout" -> 1
      [] step = "wait_until_next_candle" -> 2
      [] step = "get_oanda_candles" -> 3
      [] step = "wait_for_candle_start" -> 4
      [] step = "perform_trade" -> 5

Occurrences(log, step) == Cardinality({i \in 1..Len(log) : log[i] = step})

\* C11: the calls of a cycle come in the order get_payout, pre-close wait,
\* candle fetches, exact-open wait, orders: no fetch before the cycle's
\* get_payout and pre-close wait have returned, no order before its
\* wait_for_candle_start has returned, and orders only for a selected signal.
C11_StepsInFixedOrder ==
    /\ \A i, j \in 1..Len(steps) : i < j => Rank(steps[i]) <= Rank(steps[j])
    /\ \A i \in 1..Len(steps) :
           /\ steps[i] = "get_oanda_candles" =>
                  /\ \E j \in 1..(i - 1) : steps[j] = "get_payout"
                  /\ \E j \in 1..(i - 1) : steps[j] = "wait_until_next_candle"
           /\ steps[i] = "perform_trade" =>
                  /\ \E j \in 1..(i - 1) : steps[j] = "wait_for_candle_start"
                  /\ selected_pair # None
    /\ Occurrences(steps, "get_payout") <= 1
    /\ Occurrences(steps, "wait_until_next_candle") <= 1
    /\ Occurrences(steps, "wait_for_candle_start") <= 1

C11_Witness ==
    /\ pc = "ladder"
    /\ steps = <<"get_payout", "wait_until_next_candle", "get_oanda_candles",
                 "get_oanda_candles", "wait_for_candle_start", "perform_trade",
                 "perform_trade">>

LoopPcs ==
    {"cycle", "pause5", "wait_pre", "scan", "wait_open", "execute", "ladder",
     "pause1"}

\* C12: no error raised during a cycle ends the cycle loop: the code is
\* always at some position of main_trading_loop.
C12_ErrorsNeverEndLoop == pc \in LoopPcs

\* C13: a cycle whose get_payout returns False makes no other call: it goes
\* to the pause without a wait, a fetch or an order, and from the pause back
\* to the top of the loop, where the next call is get_payout again.
C13_FailedRefreshOnlyRetries ==
    [][/\ (pc = "cycle" /\ steps' # steps /\ payout_ret' = FALSE) =>
              (pc' = "pause5" /\ steps' = <<"get_payout">>)
       /\ pc = "pause5" =>
              /\ pc' = "cycle"
              /\ steps = <<"get_payout">>
              /\ UNCHANGED <<pairs, fetched, calls, ladders, api_log>>
       /\ (pc = "cycle" /\ pc' # "cycle") => steps' = <<"get_payout">>
      ]_vars

C13_Witness ==
    /\ pc = "pause5"
    /\ payout_ret = FALSE
    /\ steps = <<"get_payout">>
    /\ Len(pairs) = 2

(***************************************************************************)
(* Properties of the trade executor.                                       *)
(***************************************************************************)
\* C14: when api.buy reports not accepted or gives no trade identifier,
\* perform_trade makes the calls buy, disconnect, pause, connect in that
\* order, neither waits the expiry nor polls, and returns None; the session
\* is connected whenever perform_trade has returned.
C14_FailedPlacementReconnects ==
    /\ \A i \in 1..Len(calls) :
           (calls[i].buy.accepted = FALSE \/ calls[i].buy.trade_id = "None") =>
               /\ calls[i].log = <<"buy", "disconnect", "sleep(2)", "connect">>
               /\ calls[i].outcome = "None"
    /\ calls # <<>> => connected

C14_Witness ==
    /\ Len(calls) = 2
    /\ calls[2].buy = [accepted |-> TRUE, trade_id |-> "None"]
    /\ api_log = <<"buy", "disconnect", "sleep(2)", "connect">>
    /\ connected

\* C15: when placement succeeds, perform_trade waits the expiry, then polls
\* once, makes no disconnect or connect, and returns what it polled; an
\* attempt that is followed by another one ended with its poll.
C15_SuccessfulPlacementPollsOnce ==
    /\ \A i \in 1..Len(calls) :
           (calls[i].buy.accepted = TRUE /\ calls[i].buy.trade_id # "None") =>
               /\ calls[i].log = <<"buy", "sleep(expiration)", "check_win">>
               /\ calls[i].outcome = calls[i].polled
               /\ calls[i].polled \in WinResults
    /\ \A i \in 1..(Len(calls) - 1) :
           calls[i].log[Len(calls[i].log)] = "check_win"

C15_Witness ==
    /\ Len(calls) = 2
    /\ calls[1].polled = "loose"
    /\ calls[2].polled = "draw"
    /\ ladder = "Active"

\* C17: a ladder that follows another one starts at level 1 with the base
\* stake, however the earlier ladder ended and whatever its last stake was.
C17_LadderStartsAfresh ==
    (last_ladder \in {"Won", "Lost", "Aborted"} /\ calls # <<>>) =>
        /\ calls[1].level = 1
        /\ calls[1].amount = INITIAL_AMOUNT

C17_Witness ==
    /\ last_ladder = "Lost"
    /\ last_amount = 4 * INITIAL_AMOUNT
    /\ calls # <<>>
    /\ calls[1].amount = INITIAL_AMOUNT
    /\ amount = INITIAL_AMOUNT

(***************************************************************************)
(* The candle synchronizers, lines 152-165.  The wall clock is read in     *)
(* whole seconds since the epoch; the polls are 0.1 s apart, so every      *)
(* whole second is polled and a sleep moves the clock by at most a second. *)
(***************************************************************************)
MaxClock == 3800      \* last instant of the wait driver

\* line 155
NextCandleAtBoundary(t, p) == ((t + p - 1) \div p) * p

NextCandle(t, p) == ((t \div p) + 1) * p

\* line 156
PreCloseReached(t, boundary, lead) == t >= boundary - lead

\* now.second and now.minute of the UTC datetime, line 163
second(t) == t % 60

minute(t) == (t \div 60) % 60

\* line 163
CandleStart(t, p) == second(t) = 0 /\ minute(t) % (p \div 60) = 0

\* periods: the configured one (line 24), the default of
\* wait_until_next_candle (line 152), and one whose minutes do not divide
\* the hour; leads: the default (line 152), the one passed (line 176), and
\* one as long as a period
Periods == {ConfiguredPeriod, 300, 420}

Leads == {10, ConfiguredLead, 60}

\* the rest of the program at rest
ProgramAtRest ==
    /\ MARTINGALE_LEVEL = ConfiguredLevel
    /\ INITIAL_AMOUNT = ConfiguredAmount
    /\ PayoutData = Unparseable
    /\ pairs = <<>>
    /\ raw = [SUPERTd |-> <<>>, warmup |-> 0]
    /\ df = <<>>
    /\ decision = "None"
    /\ scan_keys = <<>>
    /\ scan_i = 1
    /\ fetched = <<>>
    /\ selected_pair = None
    /\ selected_action = "None"
    /\ ladders = 0
    /\ amount = 0
    /\ level = 0
    /\ result = "None"
    /\ calls = <<>>
    /\ ladder = "Idle"
    /\ api_log = <<>>
    /\ connected = TRUE
    /\ steps = <<>>
    /\ last_amount = 0
    /\ last_ladder = "Idle"

restVars == <<configVars, payoutVars, signalVars, scanVars, ladderVars,
              pastVars, steps>>

(***************************************************************************)
(* Wait driver: the two synchronizers called one after the other, as the   *)
(* cycle does, at every instant, for every period and lead.                *)
(***************************************************************************)
InitWait ==
    /\ ProgramAtRest
    /\ payout_ret = "none"
    /\ pc = "idle"
    /\ now = 0
    /\ period \in Periods
    /\ seconds_before \in Leads
    /\ next_candle = 0
    /\ opened_at = 0

\* time passes while the caller does something else (lines 168-174 before
\* the pre-close wait, lines 178-205 between the two waits)
Tick ==
    /\ pc \in {"idle", "scanning"}
    /\ now < MaxClock
    /\ now' = now + 1
    /\ UNCHANGED <<pc, period, seconds_before, next_candle, opened_at,
                   restVars>>

\* line 176
CallWaitUntilNextCandle ==
    /\ pc = "idle"
    /\ pc' = "wait_pre"
    /\ UNCHANGED <<clockVars, restVars>>

\* one iteration of the loop of wait_until_next_candle, lines 153-158
PollPreClose ==
    /\ pc = "wait_pre"
    /\ next_candle' = NextCandle(now, period)
    /\ IF PreCloseReached(now, next_candle', seconds_before)
       THEN /\ pc' = "scanning"
            /\ now' = now
       ELSE /\ now < MaxClock
            /\ pc' = "wait_pre"
            /\ now' = now + 1
    /\ UNCHANGED <<period, seconds_before, opened_at, restVars>>

\* line 207
CallWaitForCandleStart ==
    /\ pc = "scanning"
    /\ pc' = "wait_open"
    /\ UNCHANGED <<clockVars, restVars>>

\* one iteration of the loop of wait_for_candle_start, lines 161-165
PollCandleStart ==
    /\ pc = "wait_open"
    /\ IF CandleStart(now, period)
       THEN /\ pc' = "opened"
            /\ opened_at' = now
            /\ now' = now
       ELSE /\ now < MaxClock
            /\ pc' = "wait_open"
            /\ opened_at' = opened_at
            /\ now' = now + 1
    /\ UNCHANGED <<period, seconds_before, next_candle, restVars>>

\* lines 209-216: back to the top of the loop
WaitsDone ==
    /\ pc = "opened"
    /\ pc' = "idle"
    /\ next_candle' = 0
    /\ opened_at' = 0
    /\ UNCHANGED <<now, period, seconds_before, restVars>>

NextWait ==
    \/ Tick
    \/ CallWaitUntilNextCandle
    \/ PollPreClose
    \/ CallWaitForCandleStart
    \/ PollCandleStart
    \/ WaitsDone

SpecWait == InitWait /\ [][NextWait]_vars

(***************************************************************************)
(* Properties of the synchronizers.                                        *)
(***************************************************************************)
SmallestMultipleAtLeast(t, p) == CHOOSE b \in t..(t + p - 1) : b % p = 0

SmallestMultipleAbove(t, p) == CHOOSE b \in (t + 1)..(t + p) : b % p = 0

\* C16 as stated: a poll of wait_until_next_candle at instant t returns
\* exactly when t >= B - lead, B being the smallest multiple of the period
\* that is >= t, and B is the boundary it computed; so a poll exactly on a
\* boundary takes that boundary.
C16_BoundaryAtOrAfterNow ==
    [][pc = "wait_pre" =>
           LET B == SmallestMultipleAtLeast(now, period)
           IN  IF now >= B - seconds_before
               THEN pc' = "scanning" /\ now' = now /\ next_candle' = B
               ELSE pc' = "wait_pre"
      ]_vars

\* C16 amended: a poll of wait_until_next_candle at instant t returns
\* exactly when t >= B - lead, B being the smallest multiple of the period
\* strictly greater than t, and B is the boundary it computed; a poll
\* exactly on a boundary aims at the following one.
C16_BoundaryAfterNow ==
    [][pc = "wait_pre" =>
           LET B == SmallestMultipleAbove(now, period)
           IN  IF now >= B - seconds_before
               THEN pc' = "scanning" /\ now' = now /\ next_candle' = B
               ELSE pc' = "wait_pre"
      ]_vars

C16_Witness ==
    /\ pc = "scanning"
    /\ period = 300
    /\ seconds_before = ConfiguredLead
    /\ next_candle = 2 * period
    /\ now = next_candle - seconds_before

\* C18: for every period that is a multiple of 60, wait_for_candle_start
\* returns only at multiples of the period since the epoch, and at every
\* such multiple its test passes.
C18_OpenOnEpochGrid ==
    /\ pc = "opened" => opened_at % period = 0
    /\ (pc = "wait_open" /\ now % period = 0) => CandleStart(now, period)

(***************************************************************************)
(* The cycle on the clock, lines 167-216: the steps of main_trading_loop   *)
(* with the time each of them takes.  The feed is fixed and the content of *)
(* a fetched frame is reduced to the decision detect_signal gives for it;  *)
(* a candle fetch is an HTTP request and takes any number of seconds up to *)
(* MaxFetchSeconds.                                                        *)
(***************************************************************************)
MaxCycleClock   == 240   \* last instant of the cycle on the clock
MaxFetchSeconds == 16    \* longest candle fetch

ClockFeed ==
    [parseable |-> TRUE,
     entries |-> <<Entry("ok", EURUSD, "currency", min_payout, TRUE),
                   Entry("ok", GBPUSD, "currency", min_payout, TRUE)>>]

\* what detect_signal returns for the frames a fetch can give
ScanDecisions == {detect_signal(prepare_data(frame)) : frame \in RawFrames}

\* seconds slept by one perform_trade call, lines 119 and 123
SleepSeconds(log) ==
    IF \E k \in 1..Len(log) : log[k] = "sleep(2)" THEN 2 ELSE expiration

InitClock ==
    /\ ProgramAtRest
    /\ payout_ret = FALSE
    /\ pc = "cycle"
    /\ now \in 0..(ConfiguredPeriod - 1)
    /\ period = ConfiguredPeriod
    /\ seconds_before = ConfiguredLead
    /\ next_candle = 0
    /\ opened_at = 0

\* lines 169-174 on the feed of the moment
TimedCycleStart ==
    /\ pc = "cycle"
    /\ \E feed \in {ClockFeed, Unparseable} :
        LET r == get_payout(feed, pairs) IN
        /\ PayoutData' = feed
        /\ pairs' = r.pairs
        /\ payout_ret' = r.ret
        /\ pc' = AfterPayout(r.ret)
    /\ UNCHANGED <<configVars, clockVars, pastVars, steps, signalVars,
                   scanVars, ladderVars>>

\* lines 173-174: time.sleep(5); continue
TimedPauseAfterFailure ==
    /\ pc = "pause5"
    /\ now + 5 <= MaxCycleClock
    /\ now' = now + 5
    /\ pc' = "cycle"
    /\ UNCHANGED <<period, seconds_before, next_candle, opened_at, restVars>>

\* lines 153-158 and 176-186: one iteration of the loop of
\* wait_until_next_candle; when it returns the selection is cleared and the
\* scan takes its snapshot of the keys
TimedPollPreClose ==
    /\ pc = "wait_pre"
    /\ next_candle' = NextCandle(now, period)
    /\ IF PreCloseReached(now, next_candle', seconds_before)
       THEN /\ pc' = "scan"
            /\ now' = now
            /\ scan_keys' = Keys(pairs)
       ELSE /\ now < MaxCycleClock
            /\ pc' = "wait_pre"
            /\ now' = now + 1
            /\ scan_keys' = scan_keys
    /\ UNCHANGED <<period, seconds_before, opened_at, configVars, payoutVars,
                   signalVars, scan_i, fetched, selected_pair, selected_action,
                   ladders, ladderVars, pastVars, steps>>

\* lines 187-192: the fetch takes d seconds and returns None
TimedScanFetchFails ==
    /\ pc = "scan"
    /\ scan_i <= Len(scan_keys)
    /\ \E d \in 0..MaxFetchSeconds :
        /\ now + d <= MaxCycleClock
        /\ now' = now + d
    /\ scan_i' = scan_i + 1
    /\ UNCHANGED <<pc, period, seconds_before, next_candle, opened_at,
                   configVars, payoutVars, signalVars, scan_keys, fetched,
                   selected_pair, selected_action, ladders, ladderVars,
                   pastVars, steps>>

\* lines 187-205: the fetch takes d seconds and returns a frame, which is
\* prepared and classified
TimedScanFetch ==
    /\ pc = "scan"
    /\ scan_i <= Len(scan_keys)
    /\ \E d \in 0..MaxFetchSeconds :
        /\ now + d <= MaxCycleClock
        /\ now' = now + d
    /\ \E dec \in ScanDecisions :
        /\ IF Truthy(dec)
           THEN /\ selected_pair' = scan_keys[scan_i]
                /\ selected_action' = dec
           ELSE UNCHANGED <<selected_pair, selected_action>>
        /\ IF Breaks(dec)
           THEN scan_i' = scan_i /\ pc' = AfterScan
           ELSE scan_i' = scan_i + 1 /\ pc' = pc
    /\ UNCHANGED <<period, seconds_before, next_candle, opened_at, configVars,
                   payoutVars, signalVars, scan_keys, fetched, ladders,
                   ladderVars, pastVars, steps>>

\* lines 188 and 194, 79-81: the fetch takes d seconds and returns a frame
\* for which prepare_data raises
TimedScanPrepareRaises ==
    /\ pc = "scan"
    /\ scan_i <= Len(scan_keys)
    /\ \E d \in 0..MaxFetchSeconds :
        /\ now + d <= MaxCycleClock
        /\ now' = now + d
    /\ pc' = OnPrepareError
    /\ UNCHANGED <<period, seconds_before, next_candle, opened_at, restVars>>

\* line 186: the snapshot is exhausted
TimedScanEnd ==
    /\ pc = "scan"
    /\ scan_i > Len(scan_keys)
    /\ pc' = AfterScan
    /\ UNCHANGED <<clockVars, restVars>>

\* lines 161-165 and 207: one iteration of the loop of wait_for_candle_start
TimedPollCandleStart ==
    /\ pc = "wait_open"
    /\ IF CandleStart(now, period)
       THEN /\ pc' = "execute"
            /\ opened_at' = now
            /\ now' = now
       ELSE /\ now < MaxCycleClock
            /\ pc' = "wait_open"
            /\ opened_at' = opened_at
            /\ now' = now + 1
    /\ UNCHANGED <<period, seconds_before, next_candle, restVars>>

\* lines 209-213, the else branch
TimedNoSignal ==
    /\ pc = "execute"
    /\ ~(selected_pair # None /\ selected_action # "None")
    /\ pc' = "pause1"
    /\ UNCHANGED <<clockVars, restVars>>

\* lines 112-124 and 134-145: one perform_trade call at level l, with the
\* time it sleeps
TimedAttempt(l) ==
    \E buy \in BuyResults, win \in WinResults :
        LET t == perform_trade(buy, win) IN
        /\ now + SleepSeconds(t.log) <= MaxCycleClock
        /\ now' = now + SleepSeconds(t.log)
        /\ level' = l
        /\ result' = t.ret
        /\ api_log' = t.log
        /\ connected' = session_after(connected, t.log)
        /\ IF IsAbort(t.ret)
           THEN ladder' = "Aborted" /\ pc' = "pause1"
           ELSE ladder' = "Active" /\ pc' = "ladder"

\* lines 209-211 and 132-137: the first order is placed as soon as
\* wait_for_candle_start has returned
TimedMartingaleStart ==
    /\ pc = "execute"
    /\ selected_pair # None /\ selected_action # "None"
    /\ TimedAttempt(1)
    /\ ladders' = ladders + 1
    /\ UNCHANGED <<period, seconds_before, next_candle, opened_at, configVars,
                   payoutVars, signalVars, scan_keys, scan_i, fetched,
                   selected_pair, selected_action, amount, calls, pastVars,
                   steps>>

\* lines 139-145
TimedMartingaleEscalate ==
    /\ pc = "ladder"
    /\ LadderContinues(result, level, MARTINGALE_LEVEL)
    /\ TimedAttempt(level + 1)
    /\ UNCHANGED <<period, seconds_before, next_candle, opened_at, configVars,
                   payoutVars, signalVars, scanVars, amount, calls, pastVars,
                   steps>>

\* lines 139 and 147-150
TimedMartingaleReport ==
    /\ pc = "ladder"
    /\ ~LadderContinues(result, level, MARTINGALE_LEVEL)
    /\ ladder' = FinalState(result)
    /\ pc' = "pause1"
    /\ UNCHANGED <<clockVars, configVars, payoutVars, signalVars, scanVars,
                   amount, level, result, calls, api_log, connected, pastVars,
                   steps>>

\* line 216, time.sleep(1), and back to line 168
TimedPauseEndOfCycle ==
    /\ pc = "pause1"
    /\ now < MaxCycleClock
    /\ now' = now + 1
    /\ pc' = "cycle"
    /\ level' = 0
    /\ result' = "None"
    /\ ladder' = "Idle"
    /\ api_log' = <<>>
    /\ selected_pair' = None
    /\ selected_action' = "None"
    /\ scan_keys' = <<>>
    /\ scan_i' = 1
    /\ ladders' = 0
    /\ next_candle' = 0
    /\ opened_at' = 0
    /\ UNCHANGED <<period, seconds_before, configVars, payoutVars, signalVars,
                   fetched, amount, calls, connected, pastVars, steps>>

NextClock ==
    \/ TimedCycleStart
    \/ TimedPauseAfterFailure
    \/ TimedPollPreClose
    \/ TimedScanFetchFails
    \/ TimedScanFetch
    \/ TimedScanPrepareRaises
    \/ TimedScanEnd
    \/ TimedPollCandleStart
    \/ TimedNoSignal
    \/ TimedMartingaleStart
    \/ TimedMartingaleEscalate
    \/ TimedMartingaleReport
    \/ TimedPauseEndOfCycle

SpecClock == InitClock /\ [][NextClock]_vars

\* the polling loops and the statements of the cycle keep running: every
\* step of the cycle moves the code, the clock or the scan
progressVars == <<pc, now, scan_i>>

FairSpecClock == SpecClock /\ WF_progressVars(NextClock)

(***************************************************************************)
(* Properties of the cycle on the clock.                                   *)
(***************************************************************************)
\* C19: in a cycle that runs a ladder, the first order is placed at the
\* boundary the pre-close wait of that cycle aimed at: wait_for_candle_start
\* returned, and the ladder started, at the next_candle that
\* wait_until_next_candle had computed when it returned.
C19_OrderAtAimedBoundary ==
    (pc \in {"execute", "ladder", "pause1"} /\ selected_pair # None) =>
        opened_at = next_candle

InCycle == pc \in {"pause5", "wait_pre", "scan", "wait_open", "execute",
                   "ladder", "pause1"}

\* C20: with the clock advancing, the period a multiple of 60 and every
\* fetch, order, poll, connect and disconnect returning, a cycle in progress
\* is eventually followed by the start of a new cycle (as long as the
\* instants of the model last).
C20_EveryCycleIsFollowed ==
    [](InCycle => <>(pc = "cycle" \/ now + expiration > MaxCycleClock))

====
